---- MODULE Spec2Model ----
(***************************************************************************)
(* Model of the quiz backend: request validation (app/schemas.py), the     *)
(* endpoint (app/api/routes.py) and the LLM client                         *)
(* (app/services/llm_client.py): mock generator, response parser, provider *)
(* dispatcher and the retry decorator around it.                           *)
(*                                                                         *)
(* Text is a sequence of one-character strings, so that strip(), the fence *)
(* regular expression, find/rfind and json.loads act on characters as the  *)
(* code does.                                                              *)
(***************************************************************************)
EXTENDS Integers, Sequences, FiniteSets, TLC

VARIABLES
    settings,    \* app.core.config.Settings, fixed at import time
    body,        \* the inbound JSON body of POST /api/generate-quiz
    payload,     \* the validated GenerateQuizRequest
    pc,          \* where the request is in endpoint, dispatcher and parser
    attempt,     \* tenacity's attempt number of generate_quiz_via_llm
    dispatched,  \* how often the body of generate_quiz_via_llm was entered
    httpCalls,   \* outbound _post_json calls issued for this request
    outcomes,    \* how each outbound call ended, in order
    result,      \* what the last attempt of the dispatcher produced
    propagated,  \* the exception that left generate_quiz_via_llm
    response,    \* what the client is answered
    rawText,     \* parser: the text it was called with
    origin,      \* parser: what the provider wrote that text from
    content,     \* parser: the local variable content
    fallback,    \* parser: fallback_topic
    trail,       \* parser: the steps taken so far
    returned     \* parser: the Quiz returned, <<>> before it returns

vars == <<settings, body, payload, pc, attempt, dispatched, httpCalls, outcomes,
          result, propagated, response, rawText, origin, content, fallback, trail, returned>>

-----------------------------------------------------------------------------
(* Characters and text                                                     *)

SP == " "
LF == "\n"
QT == "\""
\* one character standing for a backquote
BQ == "<backquote>"

Whitespace == {SP, LF, "\t", "\r"}

Range(s) == {s[i] : i \in 1..Len(s)}

RECURSIVE LStrip(_)
LStrip(s) ==
    IF s # <<>> /\ Head(s) \in Whitespace THEN LStrip(Tail(s)) ELSE s

RECURSIVE RStrip(_)
RStrip(s) ==
    IF s # <<>> /\ s[Len(s)] \in Whitespace
    THEN RStrip(SubSeq(s, 1, Len(s) - 1)) ELSE s

\* str.strip()
Strip(s) == RStrip(LStrip(s))

\* s[i:j] of Python, 0-based, end exclusive
Slice(s, i, j) == SubSeq(s, i + 1, j)

\* whether text t occurs in s at 0-based offset i
OccursAt(s, t, i) ==
    /\ i >= 0
    /\ i + Len(t) <= Len(s)
    /\ \A k \in 1..Len(t) : s[i + k] = t[k]

\* whether t is a substring of s
Mentions(s, t) == \E i \in 0..Len(s) : OccursAt(s, t, i)

DigitChars == <<"0", "1", "2", "3", "4", "5", "6", "7", "8", "9">>

\* str(n) for n >= 0, as an f-string formats it
RECURSIVE IntToText(_)
IntToText(n) ==
    IF n < 10 THEN <<DigitChars[n + 1]>>
    ELSE IntToText(n \div 10) \o <<DigitChars[(n % 10) + 1]>>

\* str.lower() on the letters the fence tag can hold
LowerChar(c) ==
    CASE c = "J" -> "j" [] c = "S" -> "s" [] c = "O" -> "o" [] c = "N" -> "n"
      [] OTHER -> c

-----------------------------------------------------------------------------
(* app/schemas.py                                                          *)

NumQuestionsMin == 1
NumQuestionsMax == 20
NumQuestionsDefault == 5
OptionsMin == 2
OptionsMax == 6
OptionsDefault == 4

\* Optional[str] = None is the empty sequence, a value v is <<v>>
None == <<>>
Some(v) == <<v>>

QuizQuestion(id, prompt, options, correctIndex, explanation) ==
    [id |-> id, prompt |-> prompt, options |-> options,
     correctIndex |-> correctIndex, explanation |-> explanation]

Quiz(topic, questions) == [topic |-> topic, questions |-> questions]

\* whether pydantic accepts the body as a GenerateQuizRequest; an absent
\* field is <<>>, a present one <<value>>
RequestValid_NoUpperBound(b) ==
    /\ Len(b.topic) = 1
    /\ b.numQuestions # <<>> => b.numQuestions[1] >= NumQuestionsMin
    /\ b.optionsPerQuestion # <<>> =>
          /\ b.optionsPerQuestion[1] >= OptionsMin
          /\ b.optionsPerQuestion[1] <= OptionsMax

RequestValid(b) ==
    /\ Len(b.topic) = 1
    /\ b.numQuestions # <<>> =>
          /\ b.numQuestions[1] >= NumQuestionsMin
          /\ b.numQuestions[1] <= NumQuestionsMax
    /\ b.optionsPerQuestion # <<>> =>
          /\ b.optionsPerQuestion[1] >= OptionsMin
          /\ b.optionsPerQuestion[1] <= OptionsMax

\* the GenerateQuizRequest pydantic builds from a valid body
GenerateQuizRequest(b) ==
    [topic |-> b.topic[1],
     numQuestions |->
        IF b.numQuestions = <<>> THEN NumQuestionsDefault ELSE b.numQuestions[1],
     optionsPerQuestion |->
        IF b.optionsPerQuestion = <<>> THEN OptionsDefault
        ELSE b.optionsPerQuestion[1]]

-----------------------------------------------------------------------------
(* _mock_quiz                                                              *)

GeneralKnowledge ==
    <<"G", "e", "n", "e", "r", "a", "l", " ",
      "K", "n", "o", "w", "l", "e", "d", "g", "e">>
FactText == <<" ", "f", "a", "c", "t", " ">>
DistractorText == <<" ", "d", "i", "s", "t", "r", "a", "c", "t", "o", "r", " ">>
WhichStatement ==
    <<"W", "h", "i", "c", "h", " ", "s", "t", "a", "t", "e", "m", "e", "n", "t",
      " ", "b", "e", "s", "t", " ", "r", "e", "l", "a", "t", "e", "s", " ",
      "t", "o", " ">>
QuestionWord == <<"Q", "u", "e", "s", "t", "i", "o", "n", " ">>
ExplanationHead ==
    <<"T", "h", "e", " ", "c", "o", "r", "r", "e", "c", "t", " ",
      "o", "p", "t", "i", "o", "n", " ", "m", "e", "n", "t", "i", "o", "n", "s",
      " ", "a", " ", "c", "o", "r", "e", " ">>
ExplanationTail == <<" ", "i", "d", "e", "a", ".">>

\* f"{topic} fact {i + 1}"
FactOption(topic, i) == topic \o FactText \o IntToText(i + 1)

\* f"{topic} distractor {i + 1}.{j + 1}"
DistractorOption(topic, i, j) ==
    topic \o DistractorText \o IntToText(i + 1) \o <<".">> \o IntToText(j + 1)

\* f"The correct option mentions a core {topic} idea."
ExplanationFor(topic) == ExplanationHead \o topic \o ExplanationTail

\* the correct option of question i (0-based) with opts options per question
CorrectIndex_AlwaysZero(i, opts) == 0

CorrectIndex(i, opts) == i % opts

MockOptions(topic, i, opts) ==
    [j0 \in 1..opts |->
        IF j0 - 1 = CorrectIndex(i, opts) THEN FactOption(topic, i)
        ELSE DistractorOption(topic, i, j0 - 1)]

MockQuestion(topic, i, opts) ==
    QuizQuestion(<<"q">> \o IntToText(i + 1),
                 QuestionWord \o IntToText(i + 1) \o <<":", " ">>
                    \o WhichStatement \o topic \o <<"?">>,
                 MockOptions(topic, i, opts),
                 CorrectIndex(i, opts),
                 Some(ExplanationFor(topic)))

_mock_quiz(p) ==
    LET topic == IF Strip(p.topic) = <<>> THEN GeneralKnowledge
                 ELSE Strip(p.topic)
    IN  Quiz(topic,
             [i1 \in 1..p.numQuestions |->
                 MockQuestion(topic, i1 - 1, p.optionsPerQuestion)])

-----------------------------------------------------------------------------
(* json.loads, on the JSON texts the model feeds it: objects, arrays,       *)
(* strings without escapes, integers, true, false and null.                *)

JNull == [k |-> "null"]
JBool(b) == [k |-> "bool", b |-> b]
JNum(n) == [k |-> "num", n |-> n]
JStr(s) == [k |-> "str", s |-> s]
JArr(items) == [k |-> "arr", items |-> items]
\* pairs: the members in text order, each [key |-> text, val |-> value]
JObj(pairs) == [k |-> "obj", pairs |-> pairs]

ParseFail == [ok |-> FALSE, v |-> JNull, next |-> 0]
ParseOk(v, next) == [ok |-> TRUE, v |-> v, next |-> next]

At(s, i) == IF i >= 1 /\ i <= Len(s) THEN s[i] ELSE "<end>"

RECURSIVE SkipWs(_, _)
SkipWs(s, i) == IF At(s, i) \in Whitespace THEN SkipWs(s, i + 1) ELSE i

IsDigit(c) == \E d \in 1..10 : DigitChars[d] = c
DigitValue(c) == (CHOOSE d \in 1..10 : DigitChars[d] = c) - 1

\* the index of the closing quote of the string that opens before i, or 0
RECURSIVE StringEnd(_, _)
StringEnd(s, i) ==
    IF i > Len(s) THEN 0
    ELSE IF s[i] = QT THEN i
    ELSE IF s[i] \in {LF, "\t", "\r", "\\"} THEN 0
    ELSE StringEnd(s, i + 1)

\* [ok, v, next] of the string literal whose opening quote is at i
ParseString(s, i) ==
    LET e == StringEnd(s, i + 1)
    IN  IF At(s, i) # QT \/ e = 0 THEN ParseFail
        ELSE ParseOk(JStr(SubSeq(s, i + 1, e - 1)), e + 1)

RECURSIVE DigitsEnd(_, _)
DigitsEnd(s, i) == IF IsDigit(At(s, i)) THEN DigitsEnd(s, i + 1) ELSE i

RECURSIVE DigitsValue(_, _, _)
DigitsValue(s, i, j) ==
    IF j < i THEN 0
    ELSE 10 * DigitsValue(s, i, j - 1) + DigitValue(s[j])

\* an integer literal -?(0|[1-9][0-9]*); a fraction or exponent is not modelled
ParseNumber(s, i) ==
    LET neg == At(s, i) = "-"
        d   == IF neg THEN i + 1 ELSE i
        e   == IF At(s, d) = "0" THEN d + 1 ELSE DigitsEnd(s, d)
    IN  IF e = d \/ At(s, e) \in {".", "e", "E"} THEN ParseFail
        ELSE ParseOk(JNum(IF neg THEN 0 - DigitsValue(s, d, e - 1)
                          ELSE DigitsValue(s, d, e - 1)), e)

NullText == <<"n", "u", "l", "l">>
TrueText == <<"t", "r", "u", "e">>
FalseText == <<"f", "a", "l", "s", "e">>

RECURSIVE ParseValue(_, _)
RECURSIVE ParseElements(_, _, _)
RECURSIVE ParseMembers(_, _, _)

\* the elements of an array after "[" or ",": i is at the next element
ParseElements(s, i, acc) ==
    LET r == ParseValue(s, i)
        j == SkipWs(s, r.next)
    IN  IF ~r.ok THEN ParseFail
        ELSE IF At(s, j) = "," THEN
            ParseElements(s, SkipWs(s, j + 1), Append(acc, r.v))
        ELSE IF At(s, j) = "]" THEN ParseOk(JArr(Append(acc, r.v)), j + 1)
        ELSE ParseFail

\* the members of an object after "{" or ",": i is at the next key
ParseMembers(s, i, acc) ==
    LET key == ParseString(s, i)
        c == SkipWs(s, key.next)
        r == ParseValue(s, SkipWs(s, c + 1))
        j == SkipWs(s, r.next)
        pair == [key |-> key.v.s, val |-> r.v]
    IN  IF ~key.ok \/ At(s, c) # ":" THEN ParseFail
        ELSE IF ~r.ok THEN ParseFail
        ELSE IF At(s, j) = "," THEN
            ParseMembers(s, SkipWs(s, j + 1), Append(acc, pair))
        ELSE IF At(s, j) = "}" THEN ParseOk(JObj(Append(acc, pair)), j + 1)
        ELSE ParseFail

ParseValue(s, i) ==
    LET c == At(s, i)
    IN  IF c = "{" THEN
            IF At(s, SkipWs(s, i + 1)) = "}"
            THEN ParseOk(JObj(<<>>), SkipWs(s, i + 1) + 1)
            ELSE ParseMembers(s, SkipWs(s, i + 1), <<>>)
        ELSE IF c = "[" THEN
            IF At(s, SkipWs(s, i + 1)) = "]"
            THEN ParseOk(JArr(<<>>), SkipWs(s, i + 1) + 1)
            ELSE ParseElements(s, SkipWs(s, i + 1), <<>>)
        ELSE IF c = QT THEN ParseString(s, i)
        ELSE IF c = "-" \/ IsDigit(c) THEN ParseNumber(s, i)
        ELSE IF OccursAt(s, NullText, i - 1) THEN ParseOk(JNull, i + 4)
        ELSE IF OccursAt(s, TrueText, i - 1) THEN ParseOk(JBool(TRUE), i + 4)
        ELSE IF OccursAt(s, FalseText, i - 1) THEN ParseOk(JBool(FALSE), i + 5)
        ELSE ParseFail

\* json.loads(s): one value, whitespace around it, nothing else
json_loads(s) ==
    LET r == ParseValue(s, SkipWs(s, 1))
    IN  IF r.ok /\ SkipWs(s, r.next) = Len(s) + 1 THEN r ELSE ParseFail

-----------------------------------------------------------------------------
(* Building the Quiz from the parsed JSON value (lines 36-37 and 47-48)    *)

KeyTopic == <<"t", "o", "p", "i", "c">>
KeyQuestions == <<"q", "u", "e", "s", "t", "i", "o", "n", "s">>
KeyId == <<"i", "d">>
KeyPrompt == <<"p", "r", "o", "m", "p", "t">>
KeyOptions == <<"o", "p", "t", "i", "o", "n", "s">>
KeyCorrectIndex == <<"c", "o", "r", "r", "e", "c", "t", "I", "n", "d", "e", "x">>
KeyExplanation == <<"e", "x", "p", "l", "a", "n", "a", "t", "i", "o", "n">>

\* whether a dict built from the members has the key
HasKey(obj, key) == \E i \in 1..Len(obj.pairs) : obj.pairs[i].key = key

\* dict[key]: of members with the same key, json.loads keeps the last
Lookup(obj, key) ==
    LET last == CHOOSE i \in 1..Len(obj.pairs) :
                    /\ obj.pairs[i].key = key
                    /\ \A j \in (i + 1)..Len(obj.pairs) : obj.pairs[j].key # key
    IN  obj.pairs[last].val

\* the distinct keys of the dict, in insertion order
DictKeys(obj) ==
    LET firsts == {i \in 1..Len(obj.pairs) :
                      \A j \in 1..(i - 1) : obj.pairs[j].key # obj.pairs[i].key}
        nth(n) == CHOOSE i \in firsts : Cardinality({j \in firsts : j < i}) = n - 1
    IN  [n \in 1..Cardinality(firsts) |-> obj.pairs[nth(n)].key]

BuildFail == [ok |-> FALSE, quiz |-> Quiz(<<>>, <<>>)]
QuestionFail == [ok |-> FALSE, q |-> QuizQuestion(<<>>, <<>>, <<>>, 0, None)]

\* options: List[str]
IsTextList(v) ==
    /\ v.k = "arr"
    /\ \A i \in 1..Len(v.items) : v.items[i].k = "str"

\* explanation: Optional[str] = None
ExplanationOk(q) ==
    \/ ~HasKey(q, KeyExplanation)
    \/ Lookup(q, KeyExplanation).k \in {"str", "null"}

\* QuizQuestion(**q): q must be a mapping whose fields pydantic accepts; a
\* field of a type pydantic would coerce is not among the model's inputs
BuildQuestion(q) ==
    IF q.k # "obj" THEN QuestionFail
    ELSE IF ~(/\ HasKey(q, KeyId) /\ HasKey(q, KeyPrompt)
              /\ HasKey(q, KeyOptions) /\ HasKey(q, KeyCorrectIndex))
    THEN QuestionFail
    ELSE IF ~(/\ Lookup(q, KeyId).k = "str"
              /\ Lookup(q, KeyPrompt).k = "str"
              /\ IsTextList(Lookup(q, KeyOptions))
              /\ Lookup(q, KeyCorrectIndex).k = "num"
              /\ ExplanationOk(q))
    THEN QuestionFail
    ELSE [ok |-> TRUE,
          q |-> QuizQuestion(
                   Lookup(q, KeyId).s,
                   Lookup(q, KeyPrompt).s,
                   [i \in 1..Len(Lookup(q, KeyOptions).items) |->
                       Lookup(q, KeyOptions).items[i].s],
                   Lookup(q, KeyCorrectIndex).n,
                   IF HasKey(q, KeyExplanation)
                      /\ Lookup(q, KeyExplanation).k = "str"
                   THEN Some(Lookup(q, KeyExplanation).s) ELSE None)]

\* what "for q in v" iterates over: [ok, items]
Iterate(v) ==
    CASE v.k = "arr" -> [ok |-> TRUE, items |-> v.items]
      [] v.k = "obj" ->
            [ok |-> TRUE,
             items |-> [i \in 1..Len(DictKeys(v)) |-> JStr(DictKeys(v)[i])]]
      [] v.k = "str" ->
            [ok |-> TRUE, items |-> [i \in 1..Len(v.s) |-> JStr(<<v.s[i]>>)]]
      [] OTHER -> [ok |-> FALSE, items |-> <<>>]

\* parsed.get("questions", [])
QuestionsOf(parsed) ==
    IF HasKey(parsed, KeyQuestions) THEN Lookup(parsed, KeyQuestions)
    ELSE JArr(<<>>)

\* parsed.get("topic", fallback_topic)
TopicOf_OrFallback(parsed, fallback_topic) ==
    IF HasKey(parsed, KeyTopic) /\ Lookup(parsed, KeyTopic).k # "null"
    THEN Lookup(parsed, KeyTopic)
    ELSE JStr(fallback_topic)

TopicOf(parsed, fallback_topic) ==
    IF HasKey(parsed, KeyTopic) THEN Lookup(parsed, KeyTopic)
    ELSE JStr(fallback_topic)

\* lines 36-37: the Quiz of a parsed value, or the exception (ok = FALSE)
BuildQuiz(parsed, fallback_topic) ==
    IF parsed.k # "obj" THEN BuildFail
    ELSE LET it == Iterate(QuestionsOf(parsed))
             qs == [i \in 1..Len(it.items) |-> BuildQuestion(it.items[i])]
             topic == TopicOf(parsed, fallback_topic)
         IN  IF ~it.ok THEN BuildFail
             ELSE IF \E i \in 1..Len(qs) : ~qs[i].ok THEN BuildFail
             ELSE IF topic.k # "str" THEN BuildFail
             ELSE [ok |-> TRUE,
                   quiz |-> Quiz(topic.s, [i \in 1..Len(qs) |-> qs[i].q])]

\* lines 35-37, and 46-48: json.loads the text and build the Quiz
LoadQuiz(text, fallback_topic) ==
    LET r == json_loads(text)
    IN  IF r.ok THEN BuildQuiz(r.v, fallback_topic) ELSE BuildFail

-----------------------------------------------------------------------------
(* try_parse_quiz_json                                                     *)

FenceText == <<BQ, BQ, BQ>>
JsonTag == <<"j", "s", "o", "n">>

LowerText(s) == [i \in 1..Len(s) |-> LowerChar(s[i])]

\* the length of the match of ^```(?:json)?\n at the start, 0 if none
LeadingFence(s) ==
    IF ~OccursAt(s, FenceText, 0) THEN 0
    ELSE IF OccursAt(LowerText(s), JsonTag, 3) /\ At(s, 8) = LF THEN 8
    ELSE IF At(s, 4) = LF THEN 4
    ELSE 0

\* the 0-based offset where \n```$ matches at or after offset from, or -1;
\* $ matches at the end and before a newline that ends the text
TrailingFence(s, from) ==
    LET closing == <<LF>> \o FenceText
        atEnd == Len(s) - 4
        beforeNl == Len(s) - 5
    IN  IF beforeNl >= from /\ OccursAt(s, closing, beforeNl) /\ s[Len(s)] = LF
        THEN beforeNl
        ELSE IF atEnd >= from /\ OccursAt(s, closing, atEnd) THEN atEnd
        ELSE -1

\* line 31: re.sub(r"^```(?:json)?\n|\n```$", "", content, flags=re.IGNORECASE)
StripFences(s) ==
    LET lead == LeadingFence(s)
        trail0 == TrailingFence(s, lead)
    IN  IF trail0 = -1 THEN Slice(s, lead, Len(s))
        ELSE Slice(s, lead, trail0) \o Slice(s, trail0 + 4, Len(s))

\* str.find(c) and str.rfind(c): 0-based, -1 when absent
Find(s, c) ==
    IF c \in Range(s) THEN (CHOOSE i \in 1..Len(s) :
                               s[i] = c /\ \A j \in 1..(i - 1) : s[j] # c) - 1
    ELSE -1

RFind(s, c) ==
    IF c \in Range(s) THEN (CHOOSE i \in 1..Len(s) :
                               s[i] = c /\ \A j \in (i + 1)..Len(s) : s[j] # c) - 1
    ELSE -1

\* lines 43-48: the quiz of the text from the first "{" to the last "}"
ExtractQuiz_EndExclusive(text, fallback_topic) ==
    LET start == Find(text, "{")
        end == RFind(text, "}")
    IN  IF start # -1 /\ end # -1 /\ end > start
        THEN LoadQuiz(Slice(text, start, end), fallback_topic)
        ELSE BuildFail

ExtractQuiz(text, fallback_topic) ==
    LET start == Find(text, "{")
        end == RFind(text, "}")
    IN  IF start # -1 /\ end # -1 /\ end > start
        THEN LoadQuiz(Slice(text, start, end + 1), fallback_topic)
        ELSE BuildFail

\* lines 53-64: the fallback minimal quiz
Placeholder_FactLast(fallback_topic) ==
    Quiz(fallback_topic,
         <<QuizQuestion(
              <<"q", "1">>,
              WhichStatement \o fallback_topic \o <<"?">>,
              <<fallback_topic \o DistractorText \o <<"1", ".", "1">>,
                fallback_topic \o DistractorText \o <<"1", ".", "2">>,
                fallback_topic \o DistractorText \o <<"1", ".", "3">>,
                fallback_topic \o FactText \o <<"1">> >>,
              0,
              Some(ExplanationFor(fallback_topic)))>>)

Placeholder(fallback_topic) ==
    Quiz(fallback_topic,
         <<QuizQuestion(
              <<"q", "1">>,
              WhichStatement \o fallback_topic \o <<"?">>,
              <<fallback_topic \o FactText \o <<"1">>,
                fallback_topic \o DistractorText \o <<"1", ".", "2">>,
                fallback_topic \o DistractorText \o <<"1", ".", "3">>,
                fallback_topic \o DistractorText \o <<"1", ".", "4">> >>,
              0,
              Some(ExplanationFor(fallback_topic)))>>)

\* lines 30-31
Defence(raw) == StripFences(Strip(raw))

-----------------------------------------------------------------------------
(* The texts a provider may answer with: JSON written the way a chat model *)
(* writes it, inside fences or prose, and text that is no quiz at all.      *)

\* the most questions a quiz written by the provider holds
MaxJsonQuestions == 2

RECURSIVE Join(_, _)
Join(texts, sep) ==
    IF texts = <<>> THEN <<>>
    ELSE IF Len(texts) = 1 THEN texts[1]
    ELSE texts[1] \o sep \o Join(Tail(texts), sep)

EncText(s) == <<QT>> \o s \o <<QT>>
EncMember(key, val, gap) == EncText(key) \o <<":">> \o gap \o val
EncArray(items, gap) == <<"[">> \o Join(items, <<",">> \o gap) \o <<"]">>
EncObject(members, gap) == <<"{">> \o Join(members, <<",">> \o gap) \o <<"}">>

EncQuestion(q, gap) ==
    EncObject(
        <<EncMember(KeyId, EncText(q.id), gap),
          EncMember(KeyPrompt, EncText(q.prompt), gap),
          EncMember(KeyOptions,
                    EncArray([i \in 1..Len(q.options) |-> EncText(q.options[i])],
                             gap), gap),
          EncMember(KeyCorrectIndex, IntToText(q.correctIndex), gap)>>
        \o (IF q.explanation = None THEN <<>>
            ELSE <<EncMember(KeyExplanation, EncText(q.explanation[1]), gap)>>),
        gap)

EncQuiz(quiz, gap) ==
    EncObject(
        <<EncMember(KeyTopic, EncText(quiz.topic), gap),
          EncMember(KeyQuestions,
                    EncArray([i \in 1..Len(quiz.questions) |->
                                 EncQuestion(quiz.questions[i], gap)], gap),
                    gap)>>,
        gap)

TopicT == <<"T">>
TopicCats == <<"C", "a", "t", "s">>

\* questions as a provider writes them: the second has braces in its prompt,
\* no explanation and a correctIndex outside its options
SampleQuestion(n) ==
    IF n % 2 = 1
    THEN QuizQuestion(<<"q">> \o IntToText(n), <<"P">>, <<<<"a">>, <<"b">>>>, 1,
                      Some(<<"E">>))
    ELSE QuizQuestion(<<"q">> \o IntToText(n), <<"{", "x", "}", "?">>,
                      <<<<"a">>, <<"b">>, <<"}">>>>, 7, None)

\* the well-shaped quizzes
SampleQuizzes ==
    {Quiz(t, [i \in 1..n |-> SampleQuestion(i)]) :
        t \in {TopicT, <<>>}, n \in 0..MaxJsonQuestions}

Gaps == {<<>>, <<SP>>, <<LF, SP>>}

\* JSON values of another shape than the schema's
Q1Text == EncQuestion(SampleQuestion(1), <<>>)
TopicMember == EncMember(KeyTopic, EncText(TopicT), <<>>)
QuestionsMember(val) == EncMember(KeyQuestions, val, <<>>)

OddJson ==
    { \* objects without questions, without topic, or with neither
      EncObject(<<>>, <<>>),
      EncObject(<<TopicMember>>, <<>>),
      EncObject(<<QuestionsMember(EncArray(<<Q1Text>>, <<>>))>>, <<>>),
      EncObject(<<EncMember(<<"a">>, <<"1">>, <<>>)>>, <<>>),
      \* topic of the wrong type
      EncObject(<<EncMember(KeyTopic, NullText, <<>>),
                  QuestionsMember(EncArray(<<>>, <<>>))>>, <<>>),
      EncObject(<<EncMember(KeyTopic, EncArray(<<>>, <<>>), <<>>)>>, <<>>),
      \* questions that is no array
      EncObject(<<TopicMember, QuestionsMember(NullText)>>, <<>>),
      EncObject(<<TopicMember, QuestionsMember(<<"3">>)>>, <<>>),
      EncObject(<<TopicMember, QuestionsMember(TrueText)>>, <<>>),
      EncObject(<<TopicMember, QuestionsMember(EncObject(<<>>, <<>>))>>, <<>>),
      EncObject(<<TopicMember, QuestionsMember(EncObject(<<TopicMember>>, <<>>))>>,
                <<>>),
      EncObject(<<TopicMember, QuestionsMember(EncText(<<>>))>>, <<>>),
      EncObject(<<TopicMember, QuestionsMember(EncText(<<"a">>))>>, <<>>),
      \* entries that are no question
      EncObject(<<TopicMember, QuestionsMember(EncArray(<<NullText>>, <<>>))>>,
                <<>>),
      EncObject(<<TopicMember,
                  QuestionsMember(EncArray(<<Q1Text, EncText(<<"a">>)>>, <<>>))>>,
                <<>>),
      EncObject(<<TopicMember,
                  QuestionsMember(EncArray(<<EncObject(<<>>, <<>>)>>, <<>>))>>,
                <<>>),
      \* a question without correctIndex, with options null, with id null
      EncObject(<<TopicMember, QuestionsMember(EncArray(<<EncObject(
          <<EncMember(KeyId, EncText(<<"q">>), <<>>),
            EncMember(KeyPrompt, EncText(<<"P">>), <<>>),
            EncMember(KeyOptions, EncArray(<<>>, <<>>), <<>>)>>, <<>>)>>,
          <<>>))>>, <<>>),
      EncObject(<<TopicMember, QuestionsMember(EncArray(<<EncObject(
          <<EncMember(KeyId, EncText(<<"q">>), <<>>),
            EncMember(KeyPrompt, EncText(<<"P">>), <<>>),
            EncMember(KeyOptions, NullText, <<>>),
            EncMember(KeyCorrectIndex, <<"0">>, <<>>)>>, <<>>)>>,
          <<>>))>>, <<>>),
      EncObject(<<TopicMember, QuestionsMember(EncArray(<<EncObject(
          <<EncMember(KeyId, NullText, <<>>),
            EncMember(KeyPrompt, EncText(<<"P">>), <<>>),
            EncMember(KeyOptions, EncArray(<<EncText(<<"a">>)>>, <<>>), <<>>),
            EncMember(KeyCorrectIndex, <<"0">>, <<>>)>>, <<>>)>>,
          <<>>))>>, <<>>),
      \* a question with explanation null, an extra key and a repeated key
      EncObject(<<TopicMember, QuestionsMember(EncArray(<<EncObject(
          <<EncMember(KeyId, EncText(<<"q">>), <<>>),
            EncMember(KeyPrompt, EncText(<<"P">>), <<>>),
            EncMember(KeyOptions, EncArray(<<EncText(<<"a">>)>>, <<>>), <<>>),
            EncMember(KeyCorrectIndex, <<"-", "1">>, <<>>),
            EncMember(KeyCorrectIndex, <<"1", "2">>, <<>>),
            EncMember(<<"x">>, FalseText, <<>>),
            EncMember(KeyExplanation, NullText, <<>>)>>, <<>>)>>,
          <<>>))>>, <<>>),
      \* values that are no object
      EncArray(<<>>, <<>>),
      EncArray(<<EncQuiz(Quiz(TopicT, <<>>), <<>>)>>, <<>>),
      EncText(TopicT),
      <<"4", "2">>,
      NullText,
      TrueText }

\* text that is not JSON
NotJsonAtAll == <<"n", "o", "t", " ", "j", "s", "o", "n", " ", "a", "t", " ", "a", "l", "l">>
Junk ==
    { <<>>, <<SP>>, NotJsonAtAll, <<"{">>, <<"}">>, <<"}", "{">>,
      <<"{", "}", "}">>, <<"{", QT, "a", QT, ":", "}">>,
      <<"{", QT, "a", QT, ":", "1", ",", "}">>,
      <<"[", "1", ",", "]">>, <<"0", "1">>, <<QT, "a">>, <<"n", "u", "l">>,
      FenceText, FenceText \o <<LF>> \o FenceText }

SureHere == <<"S", "u", "r", "e", "!", " ", "H", "e", "r", "e", " ", "i", "s", " ", "t", "h", "e", " ", "q", "u", "i", "z", ":", " ">>
HopeThatHelps == <<" ", "H", "o", "p", "e", " ", "t", "h", "a", "t", " ", "h", "e", "l", "p", "s", ".">>

\* what stands around the JSON: [name, pre, post]
Wrap(name, pre, post) == [name |-> name, pre |-> pre, post |-> post]

FenceWraps ==
    { Wrap("fence", FenceText \o <<LF>>, <<LF>> \o FenceText),
      Wrap("fence", FenceText \o JsonTag \o <<LF>>, <<LF>> \o FenceText),
      Wrap("fence", FenceText \o <<"J", "S", "O", "N", LF>>, <<LF>> \o FenceText),
      Wrap("fence", FenceText \o <<"J", "s", "o", "n", LF>>, <<LF>> \o FenceText),
      Wrap("fence", <<SP, LF>> \o FenceText \o JsonTag \o <<LF>>,
           <<LF>> \o FenceText \o <<LF, SP>>) }

ProseWraps ==
    { Wrap("prose", SureHere, HopeThatHelps),
      Wrap("prose", SureHere, <<>>),
      Wrap("prose", <<>>, HopeThatHelps),
      Wrap("prose", <<"[">>, <<"]">>),
      Wrap("prose", FenceText \o JsonTag, FenceText),
      Wrap("prose", FenceText \o JsonTag \o <<"\r", LF>>, <<"\r", LF>> \o FenceText),
      Wrap("prose", SureHere \o <<LF>> \o FenceText \o JsonTag \o <<LF>>,
           <<LF>> \o FenceText \o HopeThatHelps) }

BraceWraps ==
    { Wrap("braces", <<"{", "x", "}", SP>>, <<>>),
      Wrap("braces", <<>>, <<SP, "}">>),
      Wrap("braces", <<"{">>, <<"}">>) }

Wraps == {Wrap("bare", <<>>, <<>>), Wrap("bare", <<SP, LF>>, <<LF>>)}
            \cup FenceWraps \cup ProseWraps \cup BraceWraps

Wrapped(w, text) == w.pre \o text \o w.post

NoOrigin == [kind |-> "none", quiz |-> Quiz(<<>>, <<>>), wrap |-> "none"]

\* every answer with where it comes from: [text, origin]
ProviderTexts ==
    {[text |-> Wrapped(w, EncQuiz(q, g)),
      origin |-> [kind |-> "quiz", quiz |-> q, wrap |-> w.name]] :
        q \in SampleQuizzes, g \in Gaps, w \in Wraps}
    \cup {[text |-> Wrapped(w, t),
           origin |-> [kind |-> "odd", quiz |-> Quiz(<<>>, <<>>), wrap |-> w.name]] :
            t \in OddJson, w \in Wraps}
    \cup {[text |-> t,
           origin |-> [kind |-> "junk", quiz |-> Quiz(<<>>, <<>>), wrap |-> "bare"]] :
            t \in Junk}

-----------------------------------------------------------------------------
(* app/core/config.py                                                      *)

KnownProviders == {"openrouter", "openai", "groq"}

\* PROVIDER, lower-cased; any text may be configured
Providers == KnownProviders \cup {"anthropic"}

\* an API key is unset (None), set to the empty string, or set
KeyPatterns ==
    { [p \in KnownProviders |-> "none"],
      [p \in KnownProviders |-> "set"],
      [p \in KnownProviders |-> IF p = "groq" THEN "set" ELSE "none"],
      [p \in KnownProviders |-> IF p = "openai" THEN "set" ELSE "none"],
      [p \in KnownProviders |-> IF p = "openrouter" THEN "set" ELSE "empty"],
      [p \in KnownProviders |-> IF p = "groq" THEN "empty" ELSE "set"] }

\* the model names: the defaults of lines 14, 18 and 22, and names set in
\* the environment
ModelPatterns ==
    { [p \in KnownProviders |->
          IF p = "groq" THEN "llama-3.1-8b-instant" ELSE "gpt-4o-mini"],
      [p \in KnownProviders |->
          CASE p = "groq" -> "mock"
            [] p = "openai" -> "gpt-4o"
            [] OTHER -> "meta-llama/llama-3-8b"] }

Settings ==
    [use_mock : BOOLEAN, provider : Providers, api_key : KeyPatterns,
     model : ModelPatterns]

NoSettings ==
    [use_mock |-> FALSE, provider |-> "openrouter",
     api_key |-> [p \in KnownProviders |-> "none"],
     model |-> [p \in KnownProviders |-> "gpt-4o-mini"]]

-----------------------------------------------------------------------------
(* The inbound request                                                     *)

Bodies ==
    [topic : {<<>>, <<<<>>>>, <<TopicCats>>, <<<<SP, "X", SP>>>>},
     numQuestions :
        {<<>>, <<NumQuestionsMin - 1>>, <<NumQuestionsMin>>,
         <<NumQuestionsMax>>, <<NumQuestionsMax + 1>>},
     optionsPerQuestion :
        {<<>>, <<OptionsMin - 1>>, <<OptionsMin>>, <<OptionsMax>>,
         <<OptionsMax + 1>>}]

NoBody == [topic |-> <<>>, numQuestions |-> <<>>, optionsPerQuestion |-> <<>>]
NoPayload == [topic |-> <<>>, numQuestions |-> 0, optionsPerQuestion |-> 0]

NoError == [type |-> "", message |-> ""]
NoQuiz == Quiz(<<>>, <<>>)
NoResult == [kind |-> "none", quiz |-> NoQuiz, model |-> "", error |-> NoError]
Returned(quiz, model) ==
    [kind |-> "return", quiz |-> quiz, model |-> model, error |-> NoError]
Raised(error) ==
    [kind |-> "raise", quiz |-> NoQuiz, model |-> "", error |-> error]

NoResponse ==
    [status |-> 0, quiz |-> NoQuiz, model |-> "", code |-> "", message |-> ""]

-----------------------------------------------------------------------------
(* try_parse_quiz_json, step by step                                       *)

parserIdle ==
    /\ rawText = <<>> /\ origin = NoOrigin /\ content = <<>>
    /\ fallback = <<>> /\ trail = <<>> /\ returned = <<>>

requestVars ==
    <<settings, body, payload, attempt, dispatched, httpCalls, outcomes,
      result, propagated, response>>

\* lines 30-31; a content that is no text has no strip()
ParserDefence ==
    /\ pc = "parse"
    /\ IF origin.kind = "nontext"
       THEN /\ pc' = "parse_raised"
            /\ trail' = Append(trail, "raise")
            /\ UNCHANGED content
       ELSE /\ content' = Defence(content)
            /\ pc' = "direct"
            /\ trail' = Append(trail, "defence")
    /\ UNCHANGED <<requestVars, rawText, origin, fallback, returned>>

\* lines 34-39: the direct parse
ParserDirect ==
    /\ pc = "direct"
    /\ LET direct == LoadQuiz(content, fallback)
       IN  IF direct.ok
           THEN /\ returned' = <<direct.quiz>>
                /\ trail' = Append(trail, "direct_ok")
                /\ pc' = "parsed"
           ELSE /\ trail' = Append(trail, "direct_failed")
                /\ pc' = "extract"
                /\ UNCHANGED returned
    /\ UNCHANGED <<requestVars, rawText, origin, content, fallback>>

\* lines 42-50: the parse of the text between the first { and the last }
ParserExtract ==
    /\ pc = "extract"
    /\ LET extracted == ExtractQuiz(content, fallback)
       IN  IF extracted.ok
           THEN /\ returned' = <<extracted.quiz>>
                /\ trail' = Append(trail, "extract_ok")
                /\ pc' = "parsed"
           ELSE /\ trail' = Append(trail, "extract_failed")
                /\ pc' = "placeholder"
                /\ UNCHANGED returned
    /\ UNCHANGED <<requestVars, rawText, origin, content, fallback>>

\* lines 53-64
ParserPlaceholder ==
    /\ pc = "placeholder"
    /\ returned' = <<Placeholder(fallback)>>
    /\ trail' = Append(trail, "placeholder")
    /\ pc' = "parsed"
    /\ UNCHANGED <<requestVars, rawText, origin, content, fallback>>

ParserNext ==
    \/ ParserDefence
    \/ ParserDirect
    \/ ParserExtract
    \/ ParserPlaceholder

FallbackTopics == {TopicCats, <<>>}

ParserInit ==
    /\ settings = NoSettings /\ body = NoBody /\ payload = NoPayload
    /\ attempt = 0 /\ dispatched = 0 /\ httpCalls = 0 /\ outcomes = <<>>
    /\ result = NoResult /\ propagated = NoError /\ response = NoResponse
    /\ pc = "parse"
    /\ \E t \in ProviderTexts :
          /\ rawText = t.text /\ content = t.text /\ origin = t.origin
    /\ fallback \in FallbackTopics
    /\ trail = <<>>
    /\ returned = <<>>

\* try_parse_quiz_json on every provider text and fallback topic
SpecParser == ParserInit /\ [][ParserNext]_vars

-----------------------------------------------------------------------------
(* The endpoint and generate_quiz_via_llm                                  *)

MaxAttempts == 2

parserVars == <<rawText, origin, content, fallback, trail, returned>>

\* "not settings.<provider>_api_key"
KeyMissing(st) == st.api_key[st.provider] \in {"none", "empty"}

\* lines 99-107, 129-131, 155-157, 180: answer with the mock quiz, or call
Route_IgnoresMissingKey(st) ==
    IF st.use_mock THEN "mock"
    ELSE IF st.provider \notin KnownProviders THEN "mock"
    ELSE "call"

Route(st) ==
    IF st.use_mock THEN "mock"
    ELSE IF st.provider \notin KnownProviders THEN "mock"
    ELSE IF KeyMissing(st) THEN "mock"
    ELSE "call"

\* settings.<provider>_model of the selected provider (lines 125, 151, 175)
ModelName_AlwaysOpenRouter(st) == st.model["openrouter"]

ModelName(st) == st.model[st.provider]

\* how an outbound call fails: httpx timeout or connection error,
\* raise_for_status, resp.json(), body["choices"][0]["message"]["content"]
CallFailures ==
    {"timeout", "http_status", "body_not_json", "no_choices", "no_content"}

FailureError(kind) ==
    [type |-> kind, message |-> kind]

\* whether the try of the provider branch (lines 121-126, 147-152, 171-176)
\* covers the statement that fails: the call, the envelope lookup and the
\* parser are all inside it
Guarded_OnlyTheCall(kind) == kind \in {"timeout", "http_status", "body_not_json"}

Guarded_Nothing(kind) == FALSE

Guarded(kind) == TRUE

AfterFailure(kind) == IF Guarded(kind) THEN "caught" ELSE "raised"

\* the texts the dispatcher is answered with
DispatchTexts ==
    {t \in ProviderTexts :
        \/ /\ t.origin.kind = "quiz"
           /\ t.text \in {Wrapped(w, EncQuiz(q, <<>>)) :
                 q \in {Quiz(TopicT, <<SampleQuestion(1)>>)},
                 w \in {Wrap("bare", <<>>, <<>>),
                        Wrap("prose", SureHere, HopeThatHelps)}}
        \/ /\ t.origin.kind = "odd"
           /\ t.text \in {EncObject(<<>>, <<>>), NullText}
        \/ /\ t.origin.kind = "junk"
           /\ t.text \in {NotJsonAtAll, <<>>}}

NonText == [text |-> <<>>, origin |-> [kind |-> "nontext", quiz |-> NoQuiz,
                                      wrap |-> "none"]]

Init ==
    /\ settings \in Settings
    /\ body \in Bodies
    /\ payload = NoPayload
    /\ pc = "received"
    /\ attempt = 0 /\ dispatched = 0 /\ httpCalls = 0 /\ outcomes = <<>>
    /\ result = NoResult /\ propagated = NoError /\ response = NoResponse
    /\ parserIdle

\* FastAPI validates the body against GenerateQuizRequest before the endpoint
\* runs (routes.py 8-9); the endpoint awaits the dispatcher (line 11)
ValidateAccept ==
    /\ pc = "received"
    /\ RequestValid(body)
    /\ payload' = GenerateQuizRequest(body)
    /\ attempt' = 1
    /\ pc' = "dispatch"
    /\ UNCHANGED <<settings, body, dispatched, httpCalls, outcomes, result,
                   propagated, response, parserVars>>

ValidateReject ==
    /\ pc = "received"
    /\ ~RequestValid(body)
    /\ response' = [NoResponse EXCEPT !.status = 422]
    /\ pc' = "done"
    /\ UNCHANGED <<settings, body, payload, attempt, dispatched, httpCalls,
                   outcomes, result, propagated, parserVars>>

\* lines 99-100, 106-107, 130-131, 156-157, 180
DispatchMock ==
    /\ pc = "dispatch"
    /\ Route(settings) = "mock"
    /\ dispatched' = dispatched + 1
    /\ result' = Returned(_mock_quiz(payload), "mock")
    /\ pc' = "returned"
    /\ UNCHANGED <<settings, body, payload, attempt, httpCalls, outcomes,
                   propagated, response, parserVars>>

\* lines 102-120, 132-146, 158-170: the request to the provider is built
DispatchCall ==
    /\ pc = "dispatch"
    /\ Route(settings) = "call"
    /\ dispatched' = dispatched + 1
    /\ pc' = "calling"
    /\ UNCHANGED <<settings, body, payload, attempt, httpCalls, outcomes,
                   result, propagated, response, parserVars>>

\* _post_json and the envelope lookup raise (lines 122-123, 67-71)
CallFails ==
    /\ pc = "calling"
    /\ httpCalls' = httpCalls + 1
    /\ \E kind \in CallFailures :
          /\ outcomes' = Append(outcomes, kind)
          /\ result' = Raised(FailureError(kind))
          /\ pc' = AfterFailure(kind)
    /\ UNCHANGED <<settings, body, payload, attempt, dispatched, propagated,
                   response, parserVars>>

\* the call gives a content; try_parse_quiz_json(content, payload.topic)
\* starts (lines 122-124)
CallAnswers ==
    /\ pc = "calling"
    /\ httpCalls' = httpCalls + 1
    /\ \E t \in DispatchTexts \cup {NonText} :
          /\ rawText' = t.text /\ content' = t.text /\ origin' = t.origin
          /\ outcomes' = Append(outcomes, IF t = NonText THEN "content_not_text"
                                          ELSE "content")
    /\ fallback' = payload.topic
    /\ trail' = <<>>
    /\ returned' = <<>>
    /\ pc' = "parse"
    /\ UNCHANGED <<settings, body, payload, attempt, dispatched, result,
                   propagated, response>>

\* the exception try_parse_quiz_json raised reaches the except of the branch
ParserRaises ==
    /\ pc = "parse_raised"
    /\ result' = Raised(FailureError("content_not_text"))
    /\ pc' = AfterFailure("content_not_text")
    /\ UNCHANGED <<settings, body, payload, attempt, dispatched, httpCalls,
                   outcomes, propagated, response, parserVars>>

\* lines 125, 151, 175
ProviderReturn ==
    /\ pc = "parsed"
    /\ result' = Returned(returned[1], ModelName(settings))
    /\ pc' = "returned"
    /\ UNCHANGED <<settings, body, payload, attempt, dispatched, httpCalls,
                   outcomes, propagated, response, parserVars>>

\* lines 126-127, 152-153, 176-177
ProviderCatch ==
    /\ pc = "caught"
    /\ result' = Returned(_mock_quiz(payload), "mock")
    /\ pc' = "returned"
    /\ UNCHANGED <<settings, body, payload, attempt, dispatched, httpCalls,
                   outcomes, propagated, response, parserVars>>

\* routes.py 12-16
EndpointOk ==
    /\ pc = "returned"
    /\ response' = [NoResponse EXCEPT !.status = 200, !.quiz = result.quiz,
                                      !.model = result.model]
    /\ pc' = "done"
    /\ UNCHANGED <<settings, body, payload, attempt, dispatched, httpCalls,
                   outcomes, result, propagated, parserVars>>

Next ==
    \/ ValidateAccept
    \/ ValidateReject
    \/ DispatchMock
    \/ DispatchCall
    \/ CallFails
    \/ CallAnswers
    \/ ParserDefence
    \/ ParserDirect
    \/ ParserExtract
    \/ ParserPlaceholder
    \/ ParserRaises
    \/ ProviderReturn
    \/ ProviderCatch
    \/ EndpointOk

Spec == Init /\ [][Next]_vars

-----------------------------------------------------------------------------
(* The retry decorator (line 97) and the endpoint's except (routes.py 17)  *)
(* act only when an attempt raises.  No statement outside the try blocks   *)
(* raises on a validated request, so the attempts that raise here are the  *)
(* unexpected failures before any provider branch executes that the retry  *)
(* exists for.                                                             *)

UnexpectedErrors ==
    {[type |-> "RuntimeError", message |-> "first failure"],
     [type |-> "RuntimeError", message |-> "second failure"]}

\* an attempt raises before any branch executes (lines 99-103)
PreBranchRaise ==
    /\ pc = "dispatch"
    /\ dispatched' = dispatched + 1
    /\ \E e \in UnexpectedErrors : result' = Raised(e)
    /\ pc' = "raised"
    /\ UNCHANGED <<settings, body, payload, attempt, httpCalls, outcomes,
                   propagated, response, parserVars>>

\* stop_after_attempt(2): whether tenacity stops after this attempt
StopAfterAttempt(n) == n >= MaxAttempts

\* what tenacity raises when it stops: reraise is not set, so a RetryError
\* that wraps the last attempt, whose text names only the exception's type
RetryErrorOf(last) ==
    [type |-> "RetryError",
     message |-> "RetryError[<Future at 0x... state=finished raised "
                    \o last.type \o ">]"]

\* the attempt raised and tenacity runs the function again after the wait
TenacityRetry ==
    /\ pc = "raised"
    /\ ~StopAfterAttempt(attempt)
    /\ attempt' = attempt + 1
    /\ pc' = "dispatch"
    /\ UNCHANGED <<settings, body, payload, dispatched, httpCalls, outcomes,
                   result, propagated, response, parserVars>>

\* the last attempt raised
TenacityGiveUp ==
    /\ pc = "raised"
    /\ StopAfterAttempt(attempt)
    /\ propagated' = RetryErrorOf(result.error)
    /\ pc' = "propagated"
    /\ UNCHANGED <<settings, body, payload, attempt, dispatched, httpCalls,
                   outcomes, result, response, parserVars>>

\* routes.py 17-18
EndpointError ==
    /\ pc = "propagated"
    /\ response' = [NoResponse EXCEPT !.status = 502,
                                      !.code = "LLM_UPSTREAM_ERROR",
                                      !.message = propagated.message]
    /\ pc' = "done"
    /\ UNCHANGED <<settings, body, payload, attempt, dispatched, httpCalls,
                   outcomes, result, propagated, parserVars>>

NextWithFailures ==
    \/ Next
    \/ PreBranchRaise
    \/ TenacityRetry
    \/ TenacityGiveUp
    \/ EndpointError

\* the request with attempts that may raise unexpectedly
SpecRetry == Init /\ [][NextWithFailures]_vars

-----------------------------------------------------------------------------
(* _mock_quiz on every valid request                                       *)

MockRequests ==
    [topic : {<<>>, TopicCats, <<SP, "X", SP>>, <<SP, LF>>},
     numQuestions : NumQuestionsMin..NumQuestionsMax,
     optionsPerQuestion : OptionsMin..OptionsMax]

MockInit ==
    /\ settings = NoSettings /\ body = NoBody
    /\ payload \in MockRequests
    /\ pc = "mock"
    /\ attempt = 0 /\ dispatched = 0 /\ httpCalls = 0 /\ outcomes = <<>>
    /\ result = NoResult /\ propagated = NoError /\ response = NoResponse
    /\ parserIdle

MockCall ==
    /\ pc = "mock"
    /\ result' = Returned(_mock_quiz(payload), "mock")
    /\ pc' = "mock_done"
    /\ UNCHANGED <<settings, body, payload, attempt, dispatched, httpCalls,
                   outcomes, propagated, response, parserVars>>

SpecMock == MockInit /\ [][MockCall]_vars

-----------------------------------------------------------------------------
(* The claims                                                              *)

Steps == Range(trail)
\* where the parser is while it has not raised
ParserPcs == {"parse", "direct", "extract", "placeholder", "parsed"}
Done == pc = "done"
Answered(status) == Done /\ response.status = status
ReachedDispatcher == dispatched >= 1

\* C1: every validated request is answered 200 with the (Quiz, model) pair
\* the dispatcher returned, whatever the configuration and however the
\* outbound call ended; no exception leaves the dispatcher.
C1_AlwaysAnswers ==
    /\ pc \in {"received", "dispatch", "calling", "parse_raised", "caught",
              "returned", "done"} \cup ParserPcs
    /\ Done /\ RequestValid(body) =>
          /\ ReachedDispatcher
          /\ result.kind = "return"
          /\ result.model # ""
          /\ response.status = 200
          /\ response.quiz = result.quiz
          /\ response.model = result.model

\* a call that ended with an envelope without choices was answered 200
C1_Witness ==
    /\ Answered(200)
    /\ outcomes = <<"no_choices">>
    /\ settings.provider = "openai"

MockCondition ==
    \/ settings.use_mock
    \/ settings.provider \notin KnownProviders
    \/ settings.api_key[settings.provider] \in {"none", "empty"}

\* C2: with mock mode on, the selected provider's credential absent or the
\* provider name unknown, the answer is exactly (mockQuiz(request), "mock")
\* and no outbound call is issued while the request is served.
C2_MockWithoutCall ==
    MockCondition =>
        /\ httpCalls = 0
        /\ pc \notin {"calling", "parse", "caught"}
        /\ Done /\ ReachedDispatcher =>
              /\ response.status = 200
              /\ response.model = "mock"
              /\ response.quiz = _mock_quiz(payload)
              /\ Len(response.quiz.questions) = payload.numQuestions

\* mock mode off, provider openrouter, no key configured
C2_Witness ==
    /\ Answered(200)
    /\ ~settings.use_mock
    /\ settings.provider = "openrouter"
    /\ settings.api_key["openrouter"] = "none"
    /\ response.model = "mock"
    /\ httpCalls = 0

CallAttempted == Done /\ httpCalls >= 1
CallFailed == outcomes[1] \in CallFailures \cup {"content_not_text"}

C3_ByOutcome ==
    CallAttempted =>
        /\ CallFailed =>
              /\ response.quiz = _mock_quiz(payload)
              /\ response.model = "mock"
        /\ ~CallFailed =>
              /\ fallback = payload.topic
              /\ response.quiz = returned[1]
              /\ response.model = settings.model[settings.provider]
        /\ response.model # "mock" =>
              response.model = settings.model[settings.provider]

\* C3 as claimed: the outcome of the call alone decides the result, and the
\* model identifier is "mock" only when the quiz is the mock generator's.
C3_Original ==
    /\ C3_ByOutcome
    /\ CallAttempted /\ response.model = "mock" =>
          response.quiz = _mock_quiz(payload)

\* C3 as amended: the outcome of the call alone decides the result; the
\* model identifier is "mock" only when the quiz is the mock generator's or
\* "mock" is the configured model name of the selected provider.
C3_Amended ==
    /\ C3_ByOutcome
    /\ CallAttempted /\ response.model = "mock" =>
          \/ response.quiz = _mock_quiz(payload)
          \/ settings.model[settings.provider] = "mock"

\* the provider's text was unparsable: the placeholder quiz under the real
\* model name
C3_Witness ==
    /\ CallAttempted
    /\ outcomes = <<"content">>
    /\ "placeholder" \in Steps
    /\ settings.provider = "groq"
    /\ response.model = "llama-3.1-8b-instant"
    /\ Len(response.quiz.questions) = 1

BothParsesFailed ==
    /\ ~LoadQuiz(Defence(rawText), fallback).ok
    /\ ~ExtractQuiz(Defence(rawText), fallback).ok

IsPlaceholderFor(quiz, topic) ==
    /\ quiz.topic = topic
    /\ Len(quiz.questions) = 1
    /\ LET q == quiz.questions[1]
       IN  /\ q.id = <<"q", "1">>
           /\ Mentions(q.prompt, topic)
           /\ Len(q.options) = 4
           /\ q.options[1] = topic \o FactText \o <<"1">>
           /\ \A j \in 2..4 :
                 /\ Mentions(q.options[j], topic \o DistractorText)
                 /\ ~Mentions(q.options[j], FactText)
           /\ q.correctIndex = 0

\* C4: try_parse_quiz_json returns a Quiz for every text and never raises;
\* when neither parse yields a quiz the result is the placeholder: topic =
\* fallbackTopic, one question q1 whose prompt mentions the topic, four
\* options (the fact first, three distractors), correctIndex 0.
C4_TotalWithPlaceholder ==
    /\ pc \in ParserPcs
    /\ pc = "parsed" =>
          /\ Len(returned) = 1
          /\ DOMAIN returned[1] = {"topic", "questions"}
          /\ BothParsesFailed => IsPlaceholderFor(returned[1], fallback)

\* "not json at all" with fallback topic Cats
C4_Witness ==
    /\ pc = "parsed"
    /\ rawText = NotJsonAtAll
    /\ fallback = TopicCats
    /\ trail = <<"defence", "direct_failed", "extract_failed", "placeholder">>
    /\ IsPlaceholderFor(returned[1], TopicCats)

Built == pc = "parsed" /\ Steps \cap {"direct_ok", "extract_ok"} # {}

\* the JSON value the returned quiz was built from
AcceptedValue ==
    IF "direct_ok" \in Steps THEN json_loads(content).v
    ELSE json_loads(Slice(content, Find(content, "{"),
                          RFind(content, "}") + 1)).v

IsQuestionEntry(e) ==
    /\ e.k = "obj"
    /\ \A key \in {KeyId, KeyPrompt, KeyOptions, KeyCorrectIndex} : HasKey(e, key)
    /\ Lookup(e, KeyId).k = "str"
    /\ Lookup(e, KeyPrompt).k = "str"
    /\ Lookup(e, KeyOptions).k = "arr"
    /\ \A i \in 1..Len(Lookup(e, KeyOptions).items) :
          Lookup(e, KeyOptions).items[i].k = "str"
    /\ Lookup(e, KeyCorrectIndex).k = "num"
    /\ HasKey(e, KeyExplanation) => Lookup(e, KeyExplanation).k \in {"str", "null"}

IsQuestionArray(v) ==
    /\ v.k = "arr"
    /\ \A i \in 1..Len(v.items) : IsQuestionEntry(v.items[i])

TopicRule(v) ==
    /\ HasKey(v, KeyTopic) =>
          /\ Lookup(v, KeyTopic).k = "str"
          /\ returned[1].topic = Lookup(v, KeyTopic).s
    /\ ~HasKey(v, KeyTopic) => returned[1].topic = fallback

IteratesToNothing(v) ==
    \/ v.k = "obj" /\ v.pairs = <<>>
    \/ v.k = "str" /\ v.s = <<>>

C6_RoundTrip ==
    /\ pc = "parsed" /\ origin.kind = "quiz"
          /\ origin.wrap \in {"bare", "fence", "prose"} =>
          /\ returned[1] = origin.quiz
          /\ "placeholder" \notin Steps
    /\ \A i \in 1..Len(trail) :
          trail[i] \in {"extract_ok", "extract_failed"} =>
              /\ i > 1
              /\ trail[i - 1] = "direct_failed"
              /\ ~LoadQuiz(content, fallback).ok

\* two questions inside prose, recovered by the brace extraction
C6_Witness ==
    /\ pc = "parsed"
    /\ origin.kind = "quiz"
    /\ origin.wrap = "prose"
    /\ OccursAt(rawText, SureHere, 0)
    /\ trail = <<"defence", "direct_failed", "extract_ok">>
    /\ Len(returned[1].questions) = 2
    /\ returned[1] = origin.quiz

\* C7: the mock quiz has numQuestions questions q1, q2, ... each with
\* optionsPerQuestion options; question i (0-based) has correctIndex
\* i mod optionsPerQuestion, inside the options, and the option there is the
\* only fact option, all others being distractors.
C7_MockShape ==
    pc = "mock_done" =>
        LET quiz == result.quiz
            opts == payload.optionsPerQuestion
        IN  /\ Len(quiz.questions) = payload.numQuestions
            /\ \A n \in 1..Len(quiz.questions) :
                  LET q == quiz.questions[n]
                  IN  /\ q.id = <<"q">> \o IntToText(n)
                      /\ Len(q.options) = opts
                      /\ q.correctIndex = (n - 1) % opts
                      /\ q.correctIndex >= 0
                      /\ q.correctIndex < Len(q.options)
                      /\ \A j \in 1..Len(q.options) :
                            IF j = q.correctIndex + 1
                            THEN /\ q.options[j]
                                       = quiz.topic \o FactText \o IntToText(n)
                                 /\ ~Mentions(q.options[j], DistractorText)
                            ELSE /\ q.options[j]
                                       = quiz.topic \o DistractorText
                                            \o IntToText(n) \o <<".">>
                                            \o IntToText(j)
                                 /\ ~Mentions(q.options[j], FactText)

\* five questions of four options: correctIndex runs 0, 1, 2, 3, 0
C7_Witness ==
    /\ pc = "mock_done"
    /\ payload.numQuestions = 5
    /\ payload.optionsPerQuestion = 4
    /\ [n \in 1..5 |-> result.quiz.questions[n].correctIndex] = <<0, 1, 2, 3, 0>>

InBounds(b) ==
    /\ b.numQuestions # <<>> =>
          b.numQuestions[1] \in NumQuestionsMin..NumQuestionsMax
    /\ b.optionsPerQuestion # <<>> =>
          b.optionsPerQuestion[1] \in OptionsMin..OptionsMax

C8_Boundary ==
    /\ body.numQuestions = <<NumQuestionsMax + 1>> =>
          /\ ~ReachedDispatcher
          /\ Done => response.status = 422
    /\ body.numQuestions = <<NumQuestionsMax>> /\ body.topic # <<>>
          /\ InBounds(body) /\ Done => response.status = 200

\* C8 as claimed: a request reaches the dispatcher only with a non-empty
\* topic, 1 <= numQuestions <= 20 and 2 <= optionsPerQuestion <= 6;
\* numQuestions = 21 is rejected before the dispatcher, 20 is accepted.
C8_Original ==
    /\ ReachedDispatcher =>
          /\ body.topic # <<>>
          /\ body.topic[1] # <<>>
          /\ InBounds(body)
    /\ C8_Boundary

\* C8 as amended: a request reaches the dispatcher only with a topic that is
\* text (the empty text included), 1 <= numQuestions <= 20 and
\* 2 <= optionsPerQuestion <= 6; 21 is rejected, 20 is accepted.
C8_Amended ==
    /\ ReachedDispatcher =>
          /\ body.topic # <<>>
          /\ InBounds(body)
          /\ payload.numQuestions \in NumQuestionsMin..NumQuestionsMax
          /\ payload.optionsPerQuestion \in OptionsMin..OptionsMax
    /\ C8_Boundary

\* the empty topic with numQuestions = 20 reached the dispatcher
C8_Witness ==
    /\ ReachedDispatcher
    /\ body.numQuestions = <<NumQuestionsMax>>
    /\ body.topic = <<<<>>>>
    /\ Answered(200)

\* C9: the dispatcher runs at most twice per request, the second time only
\* after the first attempt raised; an attempt that returned is not re-run;
\* when the second attempt raises too, that exception reaches the endpoint,
\* which answers 502 with code LLM_UPSTREAM_ERROR and the exception's message.
C9_RetryThenPropagate ==
    /\ dispatched <= 2
    /\ attempt <= 2
    /\ result.kind = "return" => pc \notin {"dispatch", "raised"}
    /\ pc = "propagated" => propagated = result.error
    /\ Answered(502) =>
          /\ dispatched = 2
          /\ response.code = "LLM_UPSTREAM_ERROR"
          /\ response.message = result.error.message

\* C10: at most one outbound call is issued per request over both attempts:
\* once a call was issued nothing raises out of the attempt, so no retry
\* follows it.
C10_OneCall ==
    /\ httpCalls <= 1
    /\ httpCalls = 1 =>
          /\ pc \notin {"raised", "propagated", "dispatch"}
          /\ Done => response.status = 200

\* the first attempt raised before any branch, the second one's call timed
\* out and was answered with the mock quiz
C10_Witness ==
    /\ Answered(200)
    /\ attempt = 2
    /\ dispatched = 2
    /\ httpCalls = 1
    /\ outcomes = <<"timeout">>
    /\ response.model = "mock"

====
